---------------------------- MODULE Spec2Model ----------------------------
(***************************************************************************)
(* State-machine model of src/src/GIF.py (class GIF): the stochastic and   *)
(* the forced-spike simulators, the Newton-Raphson likelihood optimizer    *)
(* and the fitting stages that call them.                                  *)
(*                                                                         *)
(* Numbers.  Voltages, currents and kernel samples are integers (fixed     *)
(* point); times are integer multiples of one time unit, so that           *)
(* int(Tref/dt) is Tref \div dt.  A floating point value is a record       *)
(* [cls, num, den]: a rational, NaN, +Inf or -Inf.  Arrays keep the        *)
(* source's 0-based indices: an array of length n is a function on 0..n-1. *)
(***************************************************************************)
EXTENDS Integers, Sequences, FiniteSets, TLC

VARIABLES
    self,        \* the GIF object: its fields (GIF.__init__)
    op,          \* the method that is running, "" when none
    pc,          \* the position inside the running method, or its outcome
    I,           \* simulate / forceSpikes: input current, 0..T-1
    V,           \* simulate / forceSpikes: membrane potential array
    spks,        \* simulate: 0/1 array of emitted spikes
    eta_sum,     \* simulate / forceSpikes: adaptation current array
    gamma_sum,   \* simulate: threshold movement array
    t,           \* simulate / forceSpikes: the loop index
    oob,         \* set of out-of-bounds accesses made so far
    evaluated,   \* simulate: the samples whose intensity and draw were evaluated
    spks_i,      \* forceSpikes: sample indices of the supplied spikes
    next_spike,  \* forceSpikes: index of the next scheduled reset
    spks_cnt,    \* forceSpikes: number of spikes consumed
    nbody,       \* forceSpikes: passes of the loop body made so far
    experiment,  \* fitting: the Experiment given to the method
    ml,          \* maximizeLikelihood: its arguments and local variables
    fit,         \* fitVoltageReset / fitSubthresholdDynamics: local variables
    twin,        \* the locals of a second run of maximizeLikelihood
    frame,       \* fit: its position and the stages that have returned
    log,         \* what the running method has printed and attempted
    self0,       \* the fields of the object when the method was called
    ret          \* the value returned by the method (a record), or <<>>

simVars == <<I, V, spks, eta_sum, gamma_sum, t, oob, evaluated>>

forceVars == <<spks_i, next_spike, spks_cnt, nbody>>

fitVars == <<experiment, ml, log, self0>>

stageVars == <<fit, twin, frame>>

-----------------------------------------------------------------------------
(* Bounds of the model *)

MaxT == 5
MaxTref == 4
RandLevels == 2

-----------------------------------------------------------------------------
(* Helpers *)

Zeros(n) == [i \in 0..(n-1) |-> 0]

Length(a) == Cardinality(DOMAIN a)

Max(a, b) == IF a >= b THEN a ELSE b

Min(a, b) == IF a <= b THEN a ELSE b


(* Floating point values: a finite value, kept exactly as a fraction       *)
(* num/den in lowest terms with den > 0, or one of the three non-finite    *)
(* values of IEEE arithmetic.  The sign of a zero is not kept.             *)

RECURSIVE GCD(_, _)
GCD(a, b) == IF b = 0 THEN a ELSE GCD(b, a % b)

Abs(a) == IF a < 0 THEN -a ELSE a

Q(n, d) ==
    LET g == GCD(Abs(n), Abs(d))
        sg == IF d < 0 THEN -1 ELSE 1
    IN  [cls |-> "fin", num |-> sg * (n \div g), den |-> sg * (d \div g)]

Fin(v) == [cls |-> "fin", num |-> v, den |-> 1]

NaN == [cls |-> "nan", num |-> 0, den |-> 1]

PInf == [cls |-> "+inf", num |-> 0, den |-> 1]

NInf == [cls |-> "-inf", num |-> 0, den |-> 1]

IsNaN(x) == x.cls = "nan"

IsFinite(x) == x.cls = "fin"

IsInf(x) == x.cls \in {"+inf", "-inf"}

\* -1, 0 or 1; the sign of a NaN is not used
Sign(x) ==
    CASE x.cls = "+inf" -> 1
      [] x.cls = "-inf" -> -1
      [] x.cls = "nan" -> 0
      [] OTHER -> IF x.num > 0 THEN 1 ELSE IF x.num < 0 THEN -1 ELSE 0

InfOfSign(sg) == IF sg > 0 THEN PInf ELSE NInf

FNeg(x) ==
    CASE x.cls = "+inf" -> NInf
      [] x.cls = "-inf" -> PInf
      [] x.cls = "nan" -> NaN
      [] OTHER -> [x EXCEPT !.num = -x.num]

FAbs(x) == IF Sign(x) < 0 THEN FNeg(x) ELSE x

\* x + y: Inf + (-Inf) is NaN
FAdd(x, y) ==
    CASE IsNaN(x) \/ IsNaN(y) -> NaN
      [] IsInf(x) /\ IsInf(y) -> IF x.cls = y.cls THEN x ELSE NaN
      [] IsInf(x) -> x
      [] IsInf(y) -> y
      [] OTHER -> Q(x.num * y.den + y.num * x.den, x.den * y.den)

FSub(x, y) == FAdd(x, FNeg(y))

\* x * y: 0 * Inf is NaN
FMul(x, y) ==
    CASE IsNaN(x) \/ IsNaN(y) -> NaN
      [] IsInf(x) \/ IsInf(y) ->
            IF Sign(x) * Sign(y) = 0 THEN NaN ELSE InfOfSign(Sign(x) * Sign(y))
      [] OTHER -> Q(x.num * y.num, x.den * y.den)

\* x / y of numpy and of C: x/0 is an infinity, 0/0 and Inf/Inf are NaN
FDiv(x, y) ==
    CASE IsNaN(x) \/ IsNaN(y) -> NaN
      [] IsInf(x) /\ IsInf(y) -> NaN
      [] IsInf(x) -> InfOfSign(Sign(x) * (IF Sign(y) < 0 THEN -1 ELSE 1))
      [] IsInf(y) -> Fin(0)
      [] y.num = 0 -> IF x.num = 0 THEN NaN ELSE InfOfSign(Sign(x))
      [] OTHER -> Q(x.num * y.den, x.den * y.num)

\* x < y of IEEE arithmetic: false as soon as one side is NaN
FLess(x, y) ==
    CASE IsNaN(x) \/ IsNaN(y) -> FALSE
      [] x.cls = "+inf" -> FALSE
      [] y.cls = "-inf" -> FALSE
      [] x.cls = "-inf" -> TRUE
      [] y.cls = "+inf" -> TRUE
      [] OTHER -> x.num * y.den < y.num * x.den

\* x > y of IEEE arithmetic
FGreater(x, y) == FLess(y, x)

\* the largest integer not above a finite x
Floor(x) == x.num \div x.den

-----------------------------------------------------------------------------
(* The kernels eta and gamma (class Filter_Rect_LogSpaced, an external     *)
(* collaborator): a filter is its vector of coefficients, one per          *)
(* rectangular basis function of width BinWidth time units.                *)

BinWidth == 2

\* Filter.getInterpolatedFilter(dt): every coefficient repeated over the
\* samples of its bin
getInterpolatedFilter(f, dt) ==
    LET per == BinWidth \div dt
    IN  [i \in 0..(Length(f) * per - 1) |-> f[i \div per]]

\* Filter.getCoefficients()
getCoefficients(f) == f

\* Filter.setFilter_toZero()
setFilter_toZero(f) == [i \in DOMAIN f |-> 0]

-----------------------------------------------------------------------------
(* GIF.simulate(I, V0), lines 128-248 *)

\* int(float(p_Tref)/dt), line 184 (and line 277)
TrefInd(Tref, dt) == Tref \div dt

\* lines 203 and 327: V[t] + dt/C*( -gl*(V[t] - El) + I[t] - eta_sum[t] )
IntegrateVoltage(s, v, i, e) ==
    v + (s.dt * (-s.gl * (v - s.El) + i - e)) \div s.C

\* (V[t+1]-Vt_star-gamma_sum[t])/DeltaV, line 207
ExpArg(vnext, gsum, Vt_star, DV) ==
    FDiv(FSub(Fin(vnext - gsum), Vt_star), DV)

\* exp(a) stored in a float, on an integer scale: 0 below the underflow
\* level, +Inf from the overflow level on, and increasing in between
ExpLo == 3

ExpHi == 3

Exp(a) ==
    CASE IsNaN(a) -> NaN
      [] a.cls = "+inf" -> PInf
      [] a.cls = "-inf" -> Fin(0)
      [] Floor(a) >= ExpHi -> PInf
      [] Floor(a) <= -ExpLo -> Fin(0)
      [] OTHER -> Fin(Floor(a) + ExpLo)

\* Lambda with the base rate lambda0 left out of the product
Lambda_NoBaseRate(lambda0, e) == e

\* line 207: lambda = lambda0*exp(...), with 0*Inf = NaN
Lambda(lambda0, e) == FMul(lambda0, e)

\* line 208: p_dontspike = exp(-lambda*(dt/1000.0)) on the scale
\* 0..RandLevels, RandLevels standing for 1.0: 1.0 for lambda = 0,
\* decreasing in lambda, 0 for an infinite lambda; exp(-x) of a negative
\* lambda is above 1.0
PDontSpike(lam) ==
    CASE IsNaN(lam) -> NaN
      [] lam.cls = "+inf" -> Fin(0)
      [] lam.cls = "-inf" -> PInf
      [] OTHER -> Fin(Max(0, RandLevels - Floor(lam)))

\* lines 207-213: whether the draw r makes the neuron spike
SpikeTest(s, vnext, gsum, r) ==
    FGreater(Fin(r),
             PDontSpike(Lambda(s.lambda0, Exp(ExpArg(vnext, gsum, s.Vt_star, s.DV)))))

\* lines 225-229: a[t+1+j] += k[j] for j < len(k); the writes past the end
\* of the array do not land in it
Superpose(a, k, at) ==
    [i \in DOMAIN a |->
        IF i - at \in DOMAIN k THEN a[i] + k[i - at] ELSE a[i]]

\* the indices among at..at+len(k)-1 that lie outside array a
OutOfRange(a, k, at) == {at + j : j \in DOMAIN k} \ DOMAIN a

\* an array from a sequence
Arr(q) == [i \in 0..(Len(q) - 1) |-> q[i + 1]]

\* all arrays of length n over the set S
Arrays(n, S) == [0..(n-1) -> S]

Idle == op = "" /\ pc = "idle"

\* StageAt with the two threshold stages in the other order
StageAt_ThresholdStagesSwapped(k) ==
    <<"fitVoltageReset", "fitSubthresholdDynamics", "fitThresholdDynamics",
      "fitStaticThreshold">>[k]

\* lines 371-377: the stages of fit in the order of its statements
StageAt(k) ==
    <<"fitVoltageReset", "fitSubthresholdDynamics", "fitStaticThreshold",
      "fitThresholdDynamics">>[k]

\* a fitting stage is called from outside, or by fit when the statement
\* that calls it is the next one
Start(name) ==
    \/ Idle
    \/ op = "fit" /\ pc = "call" /\ StageAt(frame.pos) = name

\* lines 142-172: read the parameters, allocate the arrays, set V[0] = V0.
\* V has length len(I): with an empty I the store V[0] = V0 raises IndexError
simulate_call(Iin, V0) ==
    /\ Idle
    /\ op' = "simulate"
    /\ LET p_T     == Length(Iin)
           p_eta   == getInterpolatedFilter(self.eta, self.dt)
           p_gamma == getInterpolatedFilter(self.gamma, self.dt)
       IN  /\ I' = Iin
           /\ spks' = Zeros(p_T)
           /\ eta_sum' = Zeros(p_T + 2 * Length(p_eta))
           /\ gamma_sum' = Zeros(p_T + 2 * Length(p_gamma))
           /\ IF p_T = 0
                 THEN /\ V' = Zeros(p_T)
                      /\ pc' = "IndexError"
                 ELSE /\ V' = [Zeros(p_T) EXCEPT ![0] = V0]
                      /\ pc' = "loop"
    /\ t' = 0
    /\ oob' = {}
    /\ evaluated' = {}
    /\ UNCHANGED <<self, ret, forceVars, fitVars, stageVars>>

\* SkipRefractory without the skip
SkipRefractory_NoSkip(t0, Tref_ind) == t0

\* line 218: t = t + Tref_ind
SkipRefractory(t0, Tref_ind) == t0 + Tref_ind

\* lines 199-233: one pass of the loop body with the draw r, the loop
\* index t being the value the test t < T_ind-1 has just accepted
simulate_step(r) ==
    /\ op = "simulate" /\ pc = "loop"
    /\ t < Length(I) - 1
    /\ LET T_ind    == Length(I)
           Tref_ind == TrefInd(self.Tref, self.dt)
           p_eta    == getInterpolatedFilter(self.eta, self.dt)
           p_gamma  == getInterpolatedFilter(self.gamma, self.dt)
           vnext    == IntegrateVoltage(self, V[t], I[t], eta_sum[t])
           V1       == [V EXCEPT ![t + 1] = vnext]
           t2       == SkipRefractory(t, Tref_ind)
           bad      == {<<"eta_sum", i>> : i \in OutOfRange(eta_sum, p_eta, t2 + 1)}
                       \cup
                       {<<"gamma_sum", i>> : i \in OutOfRange(gamma_sum, p_gamma, t2 + 1)}
       IN  IF SpikeTest(self, vnext, gamma_sum[t], r)
              THEN /\ spks' = IF t + 1 < T_ind - 1
                                 THEN [spks EXCEPT ![t + 1] = 1] ELSE spks
                   /\ V' = IF t2 + 1 < T_ind - 1
                              THEN [V1 EXCEPT ![t2 + 1] = self.Vr] ELSE V1
                   /\ eta_sum' = Superpose(eta_sum, p_eta, t2 + 1)
                   /\ gamma_sum' = Superpose(gamma_sum, p_gamma, t2 + 1)
                   /\ oob' = oob \cup bad
                   /\ t' = t2 + 1
                   \* a store outside the arrays is undefined: the run goes
                   \* on with the arrays as they are, or the process dies
                   /\ \/ pc' = "loop"
                      \/ bad # {} /\ pc' = "crash"
              ELSE /\ V' = V1
                   /\ t' = t + 1
                   /\ UNCHANGED <<spks, eta_sum, gamma_sum, oob, pc>>
    /\ evaluated' = evaluated \cup {t + 1}
    /\ UNCHANGED <<self, op, I, ret, forceVars, fitVars, stageVars>>

\* lines 241-248: the loop has ended; cut the arrays to len(I) and return
simulate_return ==
    /\ op = "simulate" /\ pc = "loop"
    /\ ~(t < Length(I) - 1)
    /\ LET p_T == Length(I)
       IN  ret' = [V       |-> V,
                   eta_sum |-> [i \in 0..(p_T - 1) |-> eta_sum[i]],
                   V_T     |-> [i \in 0..(p_T - 1) |->
                                   FAdd(Fin(gamma_sum[i]), self.Vt_star)],
                   spks    |-> {i * self.dt : i \in {j \in DOMAIN spks : spks[j] = 1}}]
    /\ pc' = "done"
    /\ UNCHANGED <<self, op, simVars, forceVars, fitVars, stageVars>>

-----------------------------------------------------------------------------
(* The object.  Its fields are public attributes (lines 39-78): a caller   *)
(* sets them before simulating, so the initial states range over small     *)
(* sets of values for each.                                                *)

IVals == {0, 5}

V0Vals == {0, -4}

Filters == {Arr(<<>>), Arr(<<3>>), Arr(<<1, -1>>)}

GIF(dt, Tref, lambda0, DV, eta, gamma) ==
    [dt |-> dt, gl |-> 1, C |-> 1, El |-> 0, Vr |-> -4, Tref |-> Tref,
     Vt_star |-> Fin(2), DV |-> Fin(DV), lambda0 |-> Fin(lambda0),
     eta |-> eta, gamma |-> gamma,
     avg_spike_shape |-> Arr(<<0>>), avg_spike_shape_support |-> Arr(<<0>>)]

NoCall ==
    /\ op = "" /\ pc = "idle"
    /\ I = Arr(<<>>) /\ V = Arr(<<>>) /\ spks = Arr(<<>>)
    /\ eta_sum = Arr(<<>>) /\ gamma_sum = Arr(<<>>)
    /\ t = 0 /\ oob = {} /\ evaluated = {} /\ ret = <<>>
    /\ spks_i = Arr(<<>>) /\ next_spike = 0 /\ spks_cnt = 0 /\ nbody = 0
    /\ ml = <<>> /\ fit = <<>> /\ twin = <<>> /\ frame = <<>> /\ log = <<>> /\ self0 = self

vars == <<self, op, pc, simVars, forceVars, fitVars, stageVars, ret>>

InitSim ==
    /\ self \in {GIF(dt, Tref, lambda0, 1, eta, gamma) :
                    dt \in {1, 2}, Tref \in 0..MaxTref, lambda0 \in {0, 1},
                    eta \in Filters, gamma \in Filters}
    /\ experiment = <<>>
    /\ NoCall

NextSim ==
    \/ \E n \in 0..MaxT : \E Iin \in Arrays(n, IVals) : \E V0 \in V0Vals :
          simulate_call(Iin, V0)
    \/ \E r \in 0..RandLevels : simulate_step(r)
    \/ simulate_return

SpecSim == InitSim /\ [][NextSim]_vars

-----------------------------------------------------------------------------
(* GIF.simulateDeterministic_forceSpikes(I, V0, spks), lines 251-349 *)

MaxSpikes == 2

\* np.round(x/dt) for x >= 0: to the nearest integer, a tie to the even one
Round(x, dt) ==
    LET q == x \div dt
        r == x % dt
    IN  CASE 2 * r < dt -> q
          [] 2 * r > dt -> q + 1
          [] OTHER -> IF q % 2 = 0 THEN q ELSE q + 1

\* Tools.timeToIndex(spks, dt), line 290
timeToIndex(times, dt) == [k \in DOMAIN times |-> Round(times[k], dt)]

\* int(p_T + 1.1*p_eta_l + p_Tref_i), the length np.zeros gives, line 294
EtaSumAlloc(p_T, p_eta_l, p_Tref_i) == p_T + (11 * p_eta_l) \div 10 + p_Tref_i

\* lines 296-297, one spike s:
\*   eta_sum[s+1+p_Tref_i : s+1+p_Tref_i+p_eta_l] += p_eta
\* numpy cuts the slice at the end of the array; p_eta must then have the
\* length of the slice, or length 1
SliceFits(a, k, at) ==
    \/ Length(k) = 1
    \/ Length(k) = Cardinality({i \in DOMAIN a : at <= i /\ i < at + Length(k)})

AddKernel(a, k, at) ==
    [i \in DOMAIN a |->
        IF at <= i /\ i < at + Length(k)
           THEN a[i] + (IF Length(k) = 1 THEN k[0] ELSE k[i - at])
           ELSE a[i]]

RECURSIVE ForcedEtaSum(_, _, _, _, _)
\* lines 294-297: the kernel added for the spikes n, n+1, ... of si
ForcedEtaSum(a, k, si, Tref_i, n) ==
    IF n >= Length(si) THEN a
    ELSE ForcedEtaSum(AddKernel(a, k, si[n] + 1 + Tref_i), k, si, Tref_i, n + 1)

\* what a read outside an array can give
Garbage == (-1)..MaxT

\* spks_i[k] in the C code: the element, or whatever lies beyond the array
ReadSpk(si, k, g) == IF k \in DOMAIN si THEN si[k] ELSE g

GarbageFor(si, k) == IF k \in DOMAIN si THEN {0} ELSE Garbage

\* lines 267-303 and 319-320: the arrays, eta_sum, V[0] = V0, and the first
\* scheduled reset next_spike = spks_i[0] + Tref_ind
force_setup(Iin, V0, times) ==
    /\ op' = "forceSpikes"
    /\ LET p_T      == Length(Iin)
           p_Tref_i == TrefInd(self.Tref, self.dt)
           p_eta    == getInterpolatedFilter(self.eta, self.dt)
           si       == timeToIndex(times, self.dt)
           alloc    == Zeros(EtaSumAlloc(p_T, Length(p_eta), p_Tref_i))
           fits     == \A k \in DOMAIN si : SliceFits(alloc, p_eta, si[k] + 1 + p_Tref_i)
           full     == ForcedEtaSum(alloc, p_eta, si, p_Tref_i, 0)
       IN  /\ I' = Iin
           /\ spks_i' = si
           /\ spks_cnt' = 0
           /\ CASE ~fits ->
                     /\ pc' = "ValueError"
                     /\ V' = Zeros(p_T) /\ eta_sum' = alloc /\ next_spike' = 0
                     /\ oob' = {}
                [] fits /\ p_T = 0 ->
                     /\ pc' = "IndexError"
                     /\ V' = Zeros(p_T) /\ eta_sum' = Zeros(0) /\ next_spike' = 0
                     /\ oob' = {}
                [] OTHER ->
                     /\ V' = [Zeros(p_T) EXCEPT ![0] = V0]
                     /\ eta_sum' = [i \in 0..(p_T - 1) |-> full[i]]
                     /\ \E g \in GarbageFor(si, 0) :
                           next_spike' = ReadSpk(si, 0, g) + p_Tref_i
                     /\ oob' = IF 0 \in DOMAIN si THEN {} ELSE {<<"spks_i", 0>>}
                     \* a read outside spks_i is undefined: it gives some
                     \* value, or the process dies
                     /\ \/ pc' = "loop"
                        \/ 0 \notin DOMAIN si /\ pc' = "crash"
    /\ t' = 0 /\ nbody' = 0
    /\ UNCHANGED <<self, ret, spks, gamma_sum, evaluated, fitVars, stageVars>>

\* a call of simulateDeterministic_forceSpikes from outside
force_call(Iin, V0, times) ==
    /\ Idle
    /\ force_setup(Iin, V0, times)

\* lines 323-338: one pass of the loop body
force_step ==
    /\ op = "forceSpikes" /\ pc = "loop"
    /\ t < Length(I) - 1
    /\ nbody < 2 * MaxT + MaxSpikes
    /\ nbody' = nbody + 1
    /\ LET Tref_ind == TrefInd(self.Tref, self.dt)
           V1       == [V EXCEPT ![t + 1] = IntegrateVoltage(self, V[t], I[t], eta_sum[t])]
       IN  IF t = next_spike
              THEN /\ spks_cnt' = spks_cnt + 1
                   /\ \E g \in GarbageFor(spks_i, spks_cnt + 1) :
                         next_spike' = ReadSpk(spks_i, spks_cnt + 1, g) + Tref_ind
                   /\ V' = [i \in DOMAIN V1 |->
                              CASE i = t -> self.Vr
                                [] i = t - 1 -> 0
                                [] OTHER -> V1[i]]
                   /\ oob' = oob
                             \cup (IF spks_cnt + 1 \in DOMAIN spks_i
                                      THEN {} ELSE {<<"spks_i", spks_cnt + 1>>})
                             \cup (IF t - 1 \in DOMAIN V THEN {} ELSE {<<"V", t - 1>>})
                   /\ t' = t
                   /\ \/ pc' = "loop"
                      \/ /\ (spks_cnt + 1 \notin DOMAIN spks_i \/ t - 1 \notin DOMAIN V)
                         /\ pc' = "crash"
              ELSE /\ V' = V1
                   /\ t' = t + 1
                   /\ UNCHANGED <<spks_cnt, next_spike, oob, pc>>
    /\ UNCHANGED <<self, op, I, spks, eta_sum, gamma_sum, evaluated, spks_i, ret, fitVars, stageVars>>

\* lines 346-349
force_return ==
    /\ op = "forceSpikes" /\ pc = "loop"
    /\ ~(t < Length(I) - 1)
    /\ ret' = [V |-> V, eta_sum |-> eta_sum]
    /\ pc' = "done"
    /\ UNCHANGED <<self, op, simVars, forceVars, fitVars, stageVars>>

\* ascending lists of at most MaxSpikes spike times within the first n
\* samples, and one sample beyond
SpikeLists(n, dt) ==
    LET times == 0..(n * dt)
    IN  {Arr(<<>>)} \cup {Arr(<<a>>) : a \in times}
        \cup {Arr(<<p[1], p[2]>>) : p \in {q \in times \X times : q[1] <= q[2]}}

IValsForce == {2}

InitForce ==
    /\ self \in {GIF(dt, Tref, 1, 1, eta, Arr(<<>>)) :
                    dt \in {1, 2}, Tref \in 0..MaxTref, eta \in Filters}
    /\ experiment = <<>>
    /\ NoCall

NextForce ==
    \/ \E n \in 0..MaxT : \E Iin \in Arrays(n, IValsForce) :
          \E times \in SpikeLists(n, self.dt) : force_call(Iin, 0, times)
    \/ force_step
    \/ force_return

SpecForce == InitForce /\ [][NextForce]_vars

-----------------------------------------------------------------------------
(* simulate followed by simulateDeterministic_forceSpikes on the same      *)
(* input, with the spike times that simulate returned                      *)

RECURSIVE SortedArr(_)
\* the ascending array of the elements of a finite set of numbers
SortedArr(S) ==
    IF S = {} THEN Arr(<<>>)
    ELSE LET m    == CHOOSE x \in S : \A y \in S : y <= x
             rest == SortedArr(S \ {m})
         IN  [i \in 0..Length(rest) |-> IF i = Length(rest) THEN m ELSE rest[i]]

\* simulateDeterministic_forceSpikes(I, V[0], spks) after simulate has
\* returned (time, V, eta_sum, V_T, spks); ret keeps what simulate returned
replay_call ==
    /\ op = "simulate" /\ pc = "done"
    /\ force_setup(I, V[0], SortedArr(ret.spks))

IValsReplay == {5}

InitReplay ==
    /\ self \in {GIF(dt, Tref, 1, 1, eta, Arr(<<>>)) :
                    dt \in {1, 2}, Tref \in {0, 2}, eta \in Filters}
    /\ experiment = <<>>
    /\ NoCall

NextReplay ==
    \/ \E n \in 1..MaxT : \E Iin \in Arrays(n, IValsReplay) : simulate_call(Iin, 0)
    \/ \E r \in 0..RandLevels : simulate_step(r)
    \/ simulate_return
    \/ replay_call
    \/ force_step
    \/ force_return

SpecReplay == InitReplay /\ [][NextReplay]_vars

-----------------------------------------------------------------------------
(* The Experiment and its traces (external collaborators).  A trace is     *)
(* [useTrace, nspk, roi, shape]: whether it is selected, the number of its *)
(* spikes, the number of its samples far from spikes, and its              *)
(* spike-triggered average waveform.                                       *)

MaxTraces == 2

Trace(u, n, r, w) == [useTrace |-> u, nspk |-> n, roi |-> r, shape |-> w]

Used(e) == {k \in DOMAIN e.trainingset_traces : e.trainingset_traces[k].useTrace}

RECURSIVE SumOver(_, _, _)
\* the sum of f[k] over the indices k of S
SumOver(f, S, acc) ==
    IF S = {} THEN acc
    ELSE LET k == CHOOSE x \in S : TRUE
         IN  SumOver(f, S \ {k}, acc + f[k])

\* Trace.getSpikeNb_inROI() and the N_spikes of buildXmatrix: the spikes
\* that lie in the selected samples
SpikeNb_inROI(tr) == IF tr.roi = 0 THEN 0 ELSE tr.nspk

\* the selected duration in ms: Trace.getTraceLength_inROI(), and
\* T_l_selection*tr.dt of lines 842 and 879
TraceLength_inROI(tr, dt) == tr.roi * dt

-----------------------------------------------------------------------------
(* GIF.maximizeLikelihood(experiment, beta0, buildXmatrix, maxIter,        *)
(* stopCond), lines 673-790                                                *)

\* the bound of the model on the argument maxIter; a fitting stage calls
\* with the default, which the model takes to be this bound
MaxIter == 12

\* stopCond = 10**-6, line 673
StopCondInv == 1000000

stopCond == Q(1, StopCondInv)

\* the values the summed log-likelihood L of an iteration can take
LVals == {Fin(-2000000), Fin(-2000001), Fin(0), NaN, NInf}

\* the values of the first component of the Newton step inv(H).G
StepVals == {Fin(0), Q(1, 5)}

\* line 733: logL_poisson = N_spikes_tot*(np.log(N_spikes_tot/T_tot)-1),
\* T_tot > 0.  np.log(0) is -Inf and 0*(-Inf) is NaN; otherwise the value
\* is finite, and the model keeps -N_spikes_tot for it
LogLPoisson(N_spikes_tot, T_tot) ==
    IF N_spikes_tot = 0 THEN FMul(Fin(0), NInf) ELSE Fin(-N_spikes_tot)

\* lines 746-750
LearningRate(i) == IF i <= 10 THEN Q(1, 10) ELSE Fin(1)

\* line 768: beta - learning_rate*np.dot(inv(H),G), the step acting on the
\* first component
NewtonUpdate(beta, lr, step) ==
    [k \in DOMAIN beta |-> IF k = 1 THEN FSub(beta[k], FMul(lr, step)) ELSE beta[k]]

\* line 770: abs((L-old_L)/old_L) < stopCond
RelativeChangeSmall(L, old_L) ==
    FLess(FAbs(FDiv(FSub(L, old_L), old_L)), stopCond)

\* Converged with the test on i off by one
Converged_FromThirdIteration(i, L, old_L) == i > 1 /\ RelativeChangeSmall(L, old_L)

\* line 770: (i>0 and abs((L-old_L)/old_L) < stopCond)
Converged(i, L, old_L) == i > 0 /\ RelativeChangeSmall(L, old_L)

\* line 778: (L-logL_poisson)/np.log(2)/N_spikes_tot, log(2) taken as 1
LNorm(L, logL_poisson, N_spikes_tot) ==
    FDiv(FSub(L, logL_poisson), Fin(N_spikes_tot))

\* line 781: math.isnan(L_norm)
NumericalProblem(L_norm) == IsNaN(L_norm)

MLLocals(beta0, maxIter) ==
    [maxIter |-> maxIter, beta0 |-> beta0, beta |-> beta0,
     traces_nb |-> 0, N_spikes_tot |-> 0, T_tot |-> 0, logL_poisson |-> Fin(0),
     i |-> -1, old_L |-> Fin(1), L |-> Fin(0), L_norm |-> Fin(0),
     prev_L |-> Fin(1),       \* the old_L the latest pass compared L with
     learning_rate |-> Fin(0), updates |-> 0, end |-> ""]

\* a call of maximizeLikelihood from outside, with maxIter given
maximizeLikelihood_call(beta0, maxIter) ==
    /\ Idle
    /\ op' = "maximizeLikelihood"
    /\ pc' = "ml_begin"
    /\ ml' = MLLocals(beta0, maxIter)
    /\ log' = <<>>
    /\ self0' = self
    /\ UNCHANGED <<self, experiment, ret, simVars, forceVars, stageVars>>

\* lines 694-733: traces_nb, T_tot, N_spikes_tot over the used traces, and
\* logL_poisson (for T_tot > 0)
MLTotals(m, e, dt) ==
    LET trs == e.trainingset_traces
        N   == SumOver([k \in DOMAIN trs |-> SpikeNb_inROI(trs[k])], Used(e), 0)
        T   == SumOver([k \in DOMAIN trs |-> TraceLength_inROI(trs[k], dt)], Used(e), 0)
    IN  [m EXCEPT !.traces_nb = Cardinality(Used(e)),
                  !.N_spikes_tot = N, !.T_tot = T,
                  !.logL_poisson = IF T = 0 THEN Fin(0) ELSE LogLPoisson(N, T)]

\* lines 694-742: the matrices of every used trace, T_tot, N_spikes_tot,
\* and logL_poisson, in which N_spikes_tot/T_tot raises ZeroDivisionError
\* when no sample is selected (both are Python floats)
ml_begin ==
    /\ pc = "ml_begin"
    /\ ml' = MLTotals(ml, experiment, self.dt)
    /\ pc' = IF ml'.T_tot = 0 THEN "ZeroDivisionError" ELSE "newton"
    /\ UNCHANGED <<self, op, experiment, log, self0, ret, simVars, forceVars, stageVars>>

\* lines 744-783: one pass of the Newton loop on the locals m; L is the
\* summed log-likelihood at the current beta, singular tells whether the
\* summed Hessian H has no inverse, step is the Newton step.  The result
\* holds the locals after the pass, what the pass printed, and where the
\* method goes on
NewtonPass(m, L, singular, step) ==
    LET i  == m.i + 1
        lr == LearningRate(i)
        b  == NewtonUpdate(m.beta, lr, step)
        Ln == LNorm(L, m.logL_poisson, m.N_spikes_tot)
        m1 == [m EXCEPT !.i = i, !.learning_rate = lr, !.L = L,
                        !.prev_L = m.old_L]
    IN  CASE singular ->
               \* inv(H) raises LinAlgError, line 768
               [ml |-> m1, msg |-> "", pc |-> "LinAlgError"]
          [] ~singular /\ Converged(i, L, m.old_L) ->
               [ml |-> [m1 EXCEPT !.beta = b, !.updates = m.updates + 1,
                                  !.end = "converged"],
                msg |-> "Converged", pc |-> "after_loop"]
          [] ~singular /\ ~Converged(i, L, m.old_L) /\ NumericalProblem(Ln) ->
               [ml |-> [m1 EXCEPT !.beta = b, !.updates = m.updates + 1,
                                  !.old_L = L, !.L_norm = Ln, !.end = "problem"],
                msg |-> "Problem", pc |-> "after_loop"]
          [] OTHER ->
               [ml |-> [m1 EXCEPT !.beta = b, !.updates = m.updates + 1,
                                  !.old_L = L, !.L_norm = Ln,
                                  !.end = IF i + 1 < m.maxIter THEN "" ELSE "cap"],
                msg |-> "",
                pc |-> IF i + 1 < m.maxIter THEN "newton" ELSE "after_loop"]

\* lines 744-783: one pass of the Newton loop of the running call
ml_iter(L, singular, step) ==
    /\ pc = "newton"
    /\ LET r == NewtonPass(ml, L, singular, step)
       IN  /\ ml' = r.ml
           /\ pc' = r.pc
           /\ log' = IF r.msg = "" THEN log ELSE Append(log, r.msg)
    /\ UNCHANGED <<self, op, experiment, self0, ret, simVars, forceVars, stageVars>>

\* the message of line 787 is printed with i == maxIter - 1
NotConvergedPrinted(i, maxIter) == i = maxIter - 1

\* lines 785-790: the message of the iteration cap, and return beta
ml_return ==
    /\ pc = "after_loop"
    /\ log' = IF NotConvergedPrinted(ml.i, ml.maxIter)
                 THEN Append(log, "NotConverged") ELSE log
    /\ IF op = "maximizeLikelihood"
          THEN /\ ret' = [beta |-> ml.beta]
               /\ pc' = "done"
          ELSE /\ ret' = ret
               /\ pc' = "store"
    /\ UNCHANGED <<self, op, experiment, ml, self0, simVars, forceVars, stageVars>>

-----------------------------------------------------------------------------
(* Two runs of maximizeLikelihood on the same experiment, beta0 and        *)
(* maxIter, that differ in the value of logL_poisson only.  As long as     *)
(* both are in the loop their beta is the same, and so are L, G and H.     *)

MaxIterPair == 3

\* values logL_poisson is given in the second run
LogLVals == {NaN, Fin(-1), Fin(-2)}

\* lines 694-742 of both runs
pair_call(beta0, maxIter, lp) ==
    /\ Idle
    /\ op' = "maximizeLikelihood_pair"
    /\ LET m == MLTotals(MLLocals(beta0, maxIter), experiment, self.dt)
       IN  /\ lp # m.logL_poisson
           /\ ml' = m
           /\ twin' = [m EXCEPT !.logL_poisson = lp]
           /\ pc' = IF m.T_tot = 0 THEN "ZeroDivisionError" ELSE "pair"
    /\ log' = <<>>
    /\ self0' = self
    /\ UNCHANGED <<self, experiment, fit, ret, simVars, forceVars, frame>>

\* lines 744-783: one pass of the loop in each run that is still in it,
\* with an invertible H
pair_iter(L, step) ==
    /\ op = "maximizeLikelihood_pair" /\ pc = "pair"
    /\ ml' = IF ml.end = "" THEN NewtonPass(ml, L, FALSE, step).ml ELSE ml
    /\ twin' = IF twin.end = "" THEN NewtonPass(twin, L, FALSE, step).ml ELSE twin
    /\ pc' = IF ml'.end # "" /\ twin'.end # "" THEN "pair_after_loop" ELSE "pair"
    /\ UNCHANGED <<self, op, experiment, fit, log, self0, ret, simVars, forceVars, frame>>

\* line 790 of both runs
pair_return ==
    /\ op = "maximizeLikelihood_pair" /\ pc = "pair_after_loop"
    /\ ret' = [beta |-> ml.beta, beta_twin |-> twin.beta]
    /\ pc' = "done"
    /\ UNCHANGED <<self, op, experiment, ml, log, self0, simVars, forceVars, stageVars>>

InitPair ==
    /\ self = GIF(1, 0, 1, 2, Arr(<<>>), Arr(<<3>>))
    /\ experiment \in {[dt |-> 1, trainingset_traces |-> trs] :
                          trs \in UNION {[1..n ->
                                  {Trace(FALSE, 1, 2, Arr(<<0>>)), Trace(TRUE, 0, 2, Arr(<<0>>)),
                                   Trace(TRUE, 1, 2, Arr(<<0>>))}] : n \in 0..MaxTraces}}
    /\ NoCall

NextPair ==
    \/ \E maxIter \in 1..MaxIterPair : \E lp \in LogLVals :
          pair_call(<<Q(1, 50), Fin(0)>>, maxIter, lp)
    \/ \E L \in LVals : \E step \in StepVals : pair_iter(L, step)
    \/ pair_return

SpecPair == InitPair /\ [][NextPair]_vars

-----------------------------------------------------------------------------
(* GIF.fitStaticThreshold, lines 587-637, and GIF.fitThresholdDynamics,    *)
(* lines 640-670                                                           *)

RECURSIVE ILog2(_)
\* the integer part of log2(n), n >= 1
ILog2(n) == IF n <= 1 THEN 0 ELSE 1 + ILog2(n \div 2)

\* np.log(x) for x >= 0 on an integer scale: -Inf at 0
Log(x) ==
    CASE IsNaN(x) -> NaN
      [] x.cls = "+inf" -> PInf
      [] x.num = 0 -> NInf
      [] Floor(x) >= 1 -> Fin(ILog2(Floor(x)))
      [] OTHER -> Fin(-ILog2(x.den \div x.num))

\* GIF.setDt(dt), lines 82-88
setDt(s, dt) == [s EXCEPT !.dt = dt]

\* lines 606-614
NbSpikes(e) ==
    LET trs == e.trainingset_traces
    IN  SumOver([k \in DOMAIN trs |-> SpikeNb_inROI(trs[k])], Used(e), 0)

Duration(e) ==
    LET trs == e.trainingset_traces
    IN  SumOver([k \in DOMAIN trs |-> TraceLength_inROI(trs[k], e.dt)], Used(e), 0)

\* lines 600-627: the initial threshold from the mean firing rate, in
\* which 1000.0*nbSpikes/duration raises ZeroDivisionError when no sample
\* is selected; then the call of maximizeLikelihood with the default maxIter
fitStaticThreshold_call ==
    /\ Start("fitStaticThreshold")
    /\ op' = "fitStaticThreshold"
    /\ self0' = self
    /\ log' = <<>>
    /\ LET s1   == setDt(self, experiment.dt)
           nb   == NbSpikes(experiment)
           dur  == Duration(experiment)
           rate == Q(1000 * nb, dur)
           DV   == Fin(50)
           Vt   == FMul(FNeg(Log(rate)), DV)
           s2   == [s1 EXCEPT !.lambda0 = Fin(1), !.DV = DV, !.Vt_star = Vt]
           beta0 == <<FDiv(Fin(1), s2.DV), FDiv(FNeg(s2.Vt_star), s2.DV)>>
       IN  IF dur = 0
              THEN /\ self' = s1
                   /\ pc' = "ZeroDivisionError"
                   /\ ml' = ml
              ELSE /\ self' = s2
                   /\ pc' = "ml_begin"
                   /\ ml' = MLLocals(beta0, MaxIter)
    /\ UNCHANGED <<experiment, ret, simVars, forceVars, stageVars>>

\* StoreStaticThreshold without the call of setFilter_toZero
StoreStaticThreshold_KeepGamma(s, beta_opt) ==
    LET DV == FDiv(Fin(1), beta_opt[1])
    IN  [s EXCEPT !.DV = DV, !.Vt_star = FMul(FNeg(beta_opt[2]), DV)]

\* lines 633-635: DV and Vt_star from beta_opt, and gamma set to zero
StoreStaticThreshold(s, beta_opt) ==
    LET DV == FDiv(Fin(1), beta_opt[1])
    IN  [s EXCEPT !.DV = DV,
                  !.Vt_star = FMul(FNeg(beta_opt[2]), DV),
                  !.gamma = setFilter_toZero(s.gamma)]

\* lines 633-637: store DV and Vt_star from beta_opt, zero gamma, return
fitStaticThreshold_store ==
    /\ op = "fitStaticThreshold" /\ pc = "store"
    /\ self' = StoreStaticThreshold(self, ml.beta)
    /\ ret' = [value |-> "None"]
    /\ pc' = "done"
    /\ UNCHANGED <<op, experiment, ml, log, self0, simVars, forceVars, stageVars>>

\* lines 652-660: beta0 from DV, Vt_star and the coefficients of gamma
fitThresholdDynamics_call ==
    /\ Start("fitThresholdDynamics")
    /\ op' = "fitThresholdDynamics"
    /\ self0' = self
    /\ log' = <<>>
    /\ LET s1 == setDt(self, experiment.dt)
           g  == getCoefficients(s1.gamma)
           beta0 == <<FDiv(Fin(1), s1.DV), FDiv(FNeg(s1.Vt_star), s1.DV)>>
                    \o [k \in 1..Length(g) |-> FDiv(Fin(g[k - 1]), s1.DV)]
       IN  /\ self' = s1
           /\ ml' = MLLocals(beta0, MaxIter)
    /\ pc' = "ml_begin"
    /\ UNCHANGED <<experiment, ret, simVars, forceVars, stageVars>>

\* lines 666-670: store DV, Vt_star and the coefficients of gamma, return
fitThresholdDynamics_store ==
    /\ op = "fitThresholdDynamics" /\ pc = "store"
    /\ LET DV == FDiv(Fin(1), ml.beta[1])
       IN  self' = [self EXCEPT !.DV = DV,
                                !.Vt_star = FMul(FNeg(ml.beta[2]), DV),
                                !.gamma = [k \in 0..(Len(ml.beta) - 3) |->
                                              FMul(FNeg(ml.beta[k + 3]), DV)]]
    /\ ret' = [value |-> "None"]
    /\ pc' = "done"
    /\ UNCHANGED <<op, experiment, ml, log, self0, simVars, forceVars, stageVars>>

\* the used and unused traces the optimizer is run on
TraceKindsML ==
    {Trace(FALSE, 1, 2, Arr(<<0>>)), Trace(TRUE, 0, 2, Arr(<<0>>)),
     Trace(TRUE, 1, 2, Arr(<<0>>))}

Experiments(kinds, dts) ==
    {[dt |-> d, trainingset_traces |-> trs] :
        d \in dts, trs \in UNION {[1..n -> kinds] : n \in 0..MaxTraces}}

InitML ==
    /\ self = GIF(1, 0, 3, 2, Arr(<<>>), Arr(<<3>>))
    /\ experiment \in Experiments(TraceKindsML, {1})
    /\ NoCall

NextML ==
    \/ \E maxIter \in 1..MaxIter :
          maximizeLikelihood_call(<<Q(1, 50), Fin(0)>>, maxIter)
    \/ fitStaticThreshold_call
    \/ fitThresholdDynamics_call
    \/ ml_begin
    \/ \E L \in LVals : \E singular \in BOOLEAN : \E step \in StepVals :
          ml_iter(L, singular, step)
    \/ ml_return
    \/ fitStaticThreshold_store
    \/ fitThresholdDynamics_store

SpecML == InitML /\ [][NextML]_vars

-----------------------------------------------------------------------------
(* GIF.fitVoltageReset(experiment, Tref), lines 387-428.  The fitted       *)
(* fields of the object are floating point values here.                    *)

\* the number of samples of a spike-triggered average waveform
ShapeLen == 3

\* the time support of Trace.computeAverageSpikeShape()
Support(dt) == [k \in 0..(ShapeLen - 1) |-> k * dt]

\* Trace.computeAverageSpikeShape(): (support, spike_average, spike_nb);
\* the average over no spike is undefined (NaN)
computeAverageSpikeShape(tr, dt) ==
    [support |-> Support(dt),
     spike_average |-> IF tr.nspk = 0 THEN [k \in 0..(ShapeLen - 1) |-> NaN]
                                      ELSE tr.shape,
     spike_nb |-> tr.nspk]

\* the test of lines 406-407 without the one on the spikes
ContributesSpikes_AnyUsedTrace(tr) == tr.useTrace

\* lines 406-407: if tr.useTrace : if len(tr.spks) > 0 :
ContributesSpikes(tr) == tr.useTrace /\ tr.nspk > 0

RECURSIVE SumAt(_, _, _)
\* the sum of the k-th samples of the first n waveforms
SumAt(avgs, k, n) ==
    IF n = 0 THEN Fin(0) ELSE FAdd(SumAt(avgs, k, n - 1), avgs[n][k])

\* the first waveform in the place of the mean of all
Mean_OfFirstWaveform(avgs) ==
    IF Len(avgs) = 0 THEN NaN ELSE avgs[1]

\* line 412: np.mean(all_spike_average, axis=0); the mean of the empty list
\* is the scalar NaN
Mean(avgs) ==
    IF Len(avgs) = 0 THEN NaN
    ELSE [k \in DOMAIN avgs[1] |-> FDiv(SumAt(avgs, k, Len(avgs)), Fin(Len(avgs)))]

\* line 415: np.where(support >= self.Tref)[0]
WhereAtLeast(support, Tref) == {k \in DOMAIN support : support[k] >= Tref}

\* lines 396-412: dt and Tref are set, then the average over the traces
\* that contribute spikes; support is bound by the body of the loop only
fitVoltageReset_call(Tref) ==
    /\ Start("fitVoltageReset")
    /\ op' = "fitVoltageReset"
    /\ self0' = self
    /\ log' = <<>>
    /\ self' = [self EXCEPT !.dt = experiment.dt, !.Tref = Tref]
    /\ LET contrib == SelectSeq(experiment.trainingset_traces, ContributesSpikes)
           res     == [k \in 1..Len(contrib) |->
                          computeAverageSpikeShape(contrib[k], experiment.dt)]
           avgs    == [k \in 1..Len(contrib) |-> res[k].spike_average]
       IN  fit' = [all_spike_average |-> avgs,
                   all_spike_nb |-> SumOver([k \in 1..Len(contrib) |-> res[k].spike_nb],
                                            1..Len(contrib), 0),
                   support_bound |-> Len(contrib) > 0,
                   support |-> IF Len(contrib) > 0 THEN res[Len(contrib)].support
                                                   ELSE Arr(<<>>),
                   spike_average |-> Mean(avgs)]
    /\ pc' = "estimate"
    /\ UNCHANGED <<experiment, ml, ret, simVars, forceVars, twin, frame>>

\* lines 415-428: Tref_ind, Vr, and the saved average spike shape.  The
\* name support is unbound when no trace went through the body of the loop
\* (UnboundLocalError); [0][0] of an empty np.where raises IndexError
fitVoltageReset_store ==
    /\ op = "fitVoltageReset" /\ pc = "estimate"
    /\ CASE ~fit.support_bound ->
              /\ pc' = "UnboundLocalError"
              /\ UNCHANGED <<self, ret>>
         [] fit.support_bound /\ WhereAtLeast(fit.support, self.Tref) = {} ->
              /\ pc' = "IndexError"
              /\ UNCHANGED <<self, ret>>
         [] OTHER ->
              LET w        == WhereAtLeast(fit.support, self.Tref)
                  Tref_ind == CHOOSE k \in w : \A j \in w : k <= j
              IN  /\ self' = [self EXCEPT !.Vr = fit.spike_average[Tref_ind],
                                          !.avg_spike_shape = fit.spike_average,
                                          !.avg_spike_shape_support = fit.support]
                  /\ ret' = [value |-> "None"]
                  /\ pc' = "done"
    /\ UNCHANGED <<op, experiment, ml, fit, log, self0, simVars, forceVars, twin, frame>>

-----------------------------------------------------------------------------
(* GIF.fitSubthresholdDynamics(experiment, DT_beforeSpike), lines 437-538  *)

\* line 462: if tr.useTrace :
UseTrace(tr) == tr.useTrace

\* Filter.setFilter_Coefficients(coeff)
setFilter_Coefficients(f, coeff) == coeff

\* lines 541-578: the shape of the X matrix of one trace; its rows are the
\* samples selected by getROI_FarFromSpikes, its columns V, I, 1 and one
\* per basis function of eta
fitSubthresholdDynamics_Build_Xmatrix_Yvector(s, tr) ==
    [rows |-> tr.roi, cols |-> 3 + Length(getCoefficients(s.eta))]

\* the values of b[0] and b[1] the regression can give
B0Vals == {Fin(-1), Fin(0)}

B1Vals == {Fin(1), Fin(0), Q(1, 2)}

\* a regression result b of n entries
BVec(n, b0, b1) ==
    [k \in 1..n |-> IF k = 1 THEN b0 ELSE IF k = 2 THEN b1
                    ELSE IF k = 3 THEN Fin(2) ELSE Fin(1)]

\* lines 446-485: dt, the X matrices of the used traces, and their
\* concatenation; with no used trace a message is printed, X stays the
\* empty list, and the method goes on
fitSubthresholdDynamics_call ==
    /\ Start("fitSubthresholdDynamics")
    /\ op' = "fitSubthresholdDynamics"
    /\ self0' = self
    /\ self' = [self EXCEPT !.dt = experiment.dt]
    /\ LET used == SelectSeq(experiment.trainingset_traces, UseTrace)
           Xs   == [k \in 1..Len(used) |->
                       fitSubthresholdDynamics_Build_Xmatrix_Yvector(self, used[k])]
           cnt  == Len(used)
       IN  /\ fit' = [cnt |-> cnt,
                      X |-> IF cnt = 0 THEN [kind |-> "list", rows |-> 0, cols |-> 0]
                            ELSE [kind |-> "array",
                                  rows |-> SumOver([k \in 1..cnt |-> Xs[k].rows], 1..cnt, 0),
                                  cols |-> Xs[1].cols],
                      b |-> <<>>]
           /\ log' = IF cnt = 0 THEN <<"Error, at least one training set trace">>
                                ELSE <<>>
    /\ pc' = "regression"
    /\ UNCHANGED <<experiment, ml, ret, simVars, forceVars, twin, frame>>

\* lines 491-505: the regression and the parameters taken from its result
\* b, of which b0 and b1 are the first two entries.  np.dot of the empty list with itself is the scalar 0.0, which inv
\* rejects (LinAlgError), as it does a singular XTX; an X without rows
\* gives the zero matrix
fitSubthresholdDynamics_regression(singular, b0, b1) ==
    /\ op = "fitSubthresholdDynamics" /\ pc = "regression"
    /\ log' = Append(log, "Perform linear regression")
    /\ CASE fit.X.kind = "list" ->
              /\ pc' = "LinAlgError"
              /\ UNCHANGED <<self, fit>>
         [] fit.X.kind = "array" /\ (fit.X.rows = 0 \/ singular) ->
              /\ pc' = "LinAlgError"
              /\ UNCHANGED <<self, fit>>
         [] OTHER ->
              LET b  == BVec(fit.X.cols, b0, b1)
                  C  == FDiv(Fin(1), b[2])
                  gl == FMul(FNeg(b[1]), C)
                  El == FDiv(FMul(b[3], C), gl)
              IN  /\ self' = [self EXCEPT
                                 !.C = C, !.gl = gl, !.El = El,
                                 !.eta = setFilter_Coefficients(self.eta,
                                            [k \in 0..(Len(b) - 4) |->
                                                FMul(FNeg(b[k + 4]), C)])]
                  /\ fit' = [fit EXCEPT !.b = b]
                  /\ pc' = "report"
    /\ UNCHANGED <<op, experiment, ml, self0, ret, simVars, forceVars, twin, frame>>

\* lines 508-538: the variance explained, printed; no field is assigned.
\* simulateDeterministic_forceSpikes is run on every used trace, and reads
\* spks_i[0] of a trace without spikes outside the array (line 320)
fitSubthresholdDynamics_report ==
    /\ op = "fitSubthresholdDynamics" /\ pc = "report"
    /\ LET used == SelectSeq(experiment.trainingset_traces, UseTrace)
       IN  \/ /\ pc' = "done"
              /\ ret' = [value |-> "None"]
           \/ /\ \E k \in DOMAIN used : used[k].nspk = 0
              /\ pc' = "crash"
              /\ ret' = ret
    /\ log' = Append(log, "Percentage of variance explained")
    /\ UNCHANGED <<self, op, experiment, ml, fit, self0, simVars, forceVars, twin, frame>>

\* average spike shapes of ShapeLen samples
ShapeA == [k \in 0..(ShapeLen - 1) |-> Fin(-2 * k)]

ShapeB == [k \in 0..(ShapeLen - 1) |-> Fin(1 - 3 * k)]

\* the traces the first two stages are run on
TraceKindsStages ==
    {Trace(FALSE, 1, 2, ShapeA), Trace(TRUE, 0, 2, ShapeA),
     Trace(TRUE, 1, 2, ShapeA), Trace(TRUE, 2, 0, ShapeB)}

\* the object with its fitted fields as floating point values
FitObject(Tref, eta) ==
    [GIF(1, Tref, 1, 2, [k \in DOMAIN eta |-> Fin(eta[k])], Arr(<<>>)) EXCEPT
        !.gl = Fin(1), !.C = Fin(1), !.El = Fin(0), !.Vr = Fin(-4),
        !.avg_spike_shape = Arr(<<Fin(0)>>)]

\* the values setDt is called with
DtArgs == {-1, 0, 1, 2}

\* GIF.setDt(dt), lines 82-88, called from outside
setDt_call(dt) ==
    /\ Idle
    /\ op' = "setDt"
    /\ self0' = self
    /\ self' = setDt(self, dt)
    /\ ret' = [value |-> "None"]
    /\ pc' = "done"
    /\ UNCHANGED <<experiment, ml, log, simVars, forceVars, stageVars>>

InitStages ==
    /\ self \in {FitObject(1, eta) : eta \in {Arr(<<>>), Arr(<<3>>)}}
    /\ experiment \in Experiments(TraceKindsStages, {1, 2})
    /\ NoCall

NextStages ==
    \/ \E dt \in DtArgs : setDt_call(dt)
    \/ \E Tref \in 0..MaxTref : fitVoltageReset_call(Tref)
    \/ fitVoltageReset_store
    \/ fitSubthresholdDynamics_call
    \/ \E singular \in BOOLEAN : \E b0 \in B0Vals : \E b1 \in B1Vals :
          fitSubthresholdDynamics_regression(singular, b0, b1)
    \/ fitSubthresholdDynamics_report

SpecStages == InitStages /\ [][NextStages]_vars

-----------------------------------------------------------------------------
(* GIF.fit(experiment, DT_beforeSpike), lines 357-378 *)

\* lines 357-369: the banner; the first statement is next
fit_call ==
    /\ Idle
    /\ op' = "fit"
    /\ pc' = "call"
    /\ frame' = [pos |-> 1, returned |-> <<>>]
    /\ self0' = self
    /\ UNCHANGED <<self, experiment, ml, fit, twin, log, ret, simVars, forceVars>>

\* a stage called by fit has returned: fit goes on with its next
\* statement, and returns after the fourth (line 377)
fit_next ==
    /\ frame # <<>>
    /\ op # "fit" /\ pc = "done"
    /\ frame' = [pos |-> frame.pos + 1, returned |-> Append(frame.returned, op)]
    /\ op' = "fit"
    /\ pc' = IF frame.pos = 4 THEN "done" ELSE "call"
    /\ ret' = [value |-> "None"]
    /\ UNCHANGED <<self, experiment, ml, fit, twin, log, self0, simVars, forceVars>>

\* the log-likelihoods of the optimizer runs inside fit
LValsFit == {Fin(-2000000), NaN}

InitFit ==
    /\ self \in {FitObject(1, eta) : eta \in {Arr(<<>>), Arr(<<3>>)}}
    /\ experiment \in Experiments(TraceKindsStages, {1, 2})
    /\ NoCall

NextFit ==
    \/ fit_call
    \/ fit_next
    \/ fitVoltageReset_call(self.Tref)
    \/ fitVoltageReset_store
    \/ fitSubthresholdDynamics_call
    \/ \E singular \in BOOLEAN : \E b0 \in B0Vals : \E b1 \in B1Vals :
          fitSubthresholdDynamics_regression(singular, b0, b1)
    \/ fitSubthresholdDynamics_report
    \/ fitStaticThreshold_call
    \/ fitThresholdDynamics_call
    \/ ml_begin
    \/ \E L \in LValsFit : \E singular \in BOOLEAN : ml_iter(L, singular, Fin(0))
    \/ ml_return
    \/ fitStaticThreshold_store
    \/ fitThresholdDynamics_store

SpecFit == InitFit /\ [][NextFit]_vars

-----------------------------------------------------------------------------
(* GIF.fitSubthresholdDynamics_Build_Xmatrix_Yvector(trace), lines 540-578: *)
(* the rows of X and Y.  The trace gives V, I, dt and the selection, an     *)
(* ascending array of sample indices (getROI_FarFromSpikes).                *)

\* line 576: np.concatenate( (np.diff(trace.V)/trace.dt, [0]) ), an array of
\* the length of V whose last entry is 0
VoltageDerivative(Vtr, dt) ==
    [i \in DOMAIN Vtr |->
        IF i + 1 \in DOMAIN Vtr THEN Q(Vtr[i + 1] - Vtr[i], dt) ELSE Fin(0)]

\* a[selection], numpy indexing by an array of indices
Take(a, selection) == [r \in DOMAIN selection |-> a[selection[r]]]

\* lines 560-565: the first three columns of X, one row per selected sample
XColumns(Vtr, Itr, selection) ==
    [r \in DOMAIN selection |->
        <<Take(Vtr, selection)[r], Take(Itr, selection)[r], 1>>]

\* line 576: Y
YVector(Vtr, dt, selection) == Take(VoltageDerivative(Vtr, dt), selection)

\* the selections a trace of n samples can return
Selections(n) == {SortedArr(S) : S \in SUBSET (0..(n - 1))}

\* the longest trace
MaxSamples == 3

VtrVals == {0, 2, -4}

ItrVals == {5}

\* a call of the method on a trace (V, I, dt, selection); fit keeps the
\* selection and the returned (X, Y)
Build_Xmatrix_Yvector_call(Vtr, Itr, dt, selection) ==
    /\ Idle
    /\ op' = "fitSubthresholdDynamics_Build_Xmatrix_Yvector"
    /\ V' = Vtr /\ I' = Itr
    /\ fit' = [dt |-> dt, selection |-> selection,
               X |-> XColumns(Vtr, Itr, selection),
               Y |-> YVector(Vtr, dt, selection)]
    /\ pc' = "done"
    /\ UNCHANGED <<self, ret, spks, eta_sum, gamma_sum, t, oob, evaluated,
                   forceVars, fitVars, twin, frame>>

InitBuild ==
    /\ self = FitObject(2, Arr(<<>>))
    /\ experiment = <<>>
    /\ NoCall

NextBuild ==
    \E n \in 1..MaxSamples : \E Vtr \in Arrays(n, VtrVals) : \E Itr \in Arrays(n, ItrVals) :
       \E dt \in {1, 2} : \E selection \in Selections(n) :
          Build_Xmatrix_Yvector_call(Vtr, Itr, dt, selection)

SpecBuild == InitBuild /\ [][NextBuild]_vars

-----------------------------------------------------------------------------
(* Properties of simulate *)

NoSpikeEmitted == \A i \in DOMAIN spks : spks[i] = 0

AllZero(a) == \A i \in DOMAIN a : a[i] = 0

\* C1: for every input current of length 0 or 1 and every V0, simulate
\* raises no indexing error, and what it returns is an empty list of
\* spike times and a voltage array as long as the input.
C1_ShortInputReturns ==
    (op = "simulate" /\ Length(I) <= 1) =>
        /\ pc # "IndexError"
        /\ pc = "done" => (ret.spks = {} /\ Length(ret.V) = Length(I))

\* C8: with lambda0 = 0 simulate never emits a spike, whatever the input,
\* V0, the duration and the draws: no spike is recorded, eta_sum and
\* gamma_sum stay zero, and the returned list of spike times is empty.
C8_NoSpikeWhenLambda0IsZero ==
    (op = "simulate" /\ self.lambda0 = Fin(0)) =>
        /\ NoSpikeEmitted
        /\ AllZero(eta_sum) /\ AllZero(gamma_sum)
        /\ pc \notin {"IndexError", "crash"}  \/ Length(I) = 0
        /\ pc = "done" => (ret.spks = {} /\ AllZero(ret.eta_sum))

\* a run with lambda0 = 0 over the longest input in which exp() overflowed
\* (0*Inf = NaN) at one sample and was finite at another, and that returned
C8_Witness ==
    /\ op = "simulate" /\ pc = "done" /\ self.lambda0 = Fin(0)
    /\ Length(I) = MaxT
    /\ \E i \in 1..(MaxT - 1) :
          IsNaN(Lambda(self.lambda0,
                       Exp(ExpArg(V[i], gamma_sum[i - 1], self.Vt_star, self.DV))))
    /\ \E i \in 1..(MaxT - 1) :
          Lambda(self.lambda0,
                 Exp(ExpArg(V[i], gamma_sum[i - 1], self.Vt_star, self.DV))) = Fin(0)

-----------------------------------------------------------------------------
(* Properties of simulateDeterministic_forceSpikes *)

\* the supplied spikes are sorted ascending with distinct sample indices
SortedDistinct(si) ==
    \A j, k \in DOMAIN si : j < k => si[j] < si[k]

\* C2: for a spike list sorted ascending with distinct sample indices, the
\* returned voltage is Vr at the reset index r = round(ts/dt) +
\* round(Tref/dt) of every supplied spike whose r lies inside the trace
\* (r <= T-1), whatever Tref/dt and the spacing of the spikes.
C2_ResetAtEverySpike ==
    (op = "forceSpikes" /\ pc = "done" /\ SortedDistinct(spks_i)) =>
        \A k \in DOMAIN spks_i :
            LET r == spks_i[k] + Round(self.Tref, self.dt)
            IN  r <= Length(I) - 1 => ret.V[r] = self.Vr

-----------------------------------------------------------------------------
(* Properties of maximizeLikelihood and of the threshold fitting stages *)

FitStages == {"fitStaticThreshold", "fitThresholdDynamics"}

\* the Newton loop has been entered
MLStarted ==
    /\ op \in FitStages \cup {"maximizeLikelihood"}
    /\ pc \in {"newton", "after_loop", "store", "done", "LinAlgError"}

\* maximizeLikelihood has returned
MLReturned ==
    /\ op \in FitStages \cup {"maximizeLikelihood"}
    /\ pc \in {"store", "done"}

Printed(msg) == \E k \in DOMAIN log : log[k] = msg

\* |L - old_L| / |old_L| < 10^-6 for finite whole values, old_L # 0:
\* |L - old_L| * 10^6 < |old_L|
BelowStopCond(L, old_L) ==
    /\ IsFinite(L) /\ IsFinite(old_L) /\ old_L.num # 0
    /\ L.den = 1 /\ old_L.den = 1
    /\ Abs(L.num - old_L.num) <= (Abs(old_L.num) - 1) \div StopCondInv

\* C3: maximizeLikelihood makes at most maxIter Newton iterations, goes on
\* to another one only below that cap, stops at the first iteration i >= 1
\* whose relative change of L is below stopCond, and returns the parameter
\* vector it has reached when it stops by convergence or at the cap.
C3_NewtonLoopStops ==
    MLStarted =>
        /\ ml.i <= ml.maxIter - 1
        /\ ml.updates <= ml.i + 1
        /\ pc = "newton" => ml.i < ml.maxIter - 1
        /\ (pc = "newton" /\ ml.i >= 1) => ~BelowStopCond(ml.L, ml.prev_L)
        /\ ml.end = "converged" => (ml.i >= 1 /\ BelowStopCond(ml.L, ml.prev_L))
        /\ ml.end = "cap" => ml.updates = ml.maxIter
        /\ (pc = "done" /\ op = "maximizeLikelihood") => ret = [beta |-> ml.beta]

\* a run that made every permitted iteration and returned, and in which the
\* relative change was below stopCond at the last one
C3_Witness ==
    /\ op = "maximizeLikelihood" /\ pc = "done"
    /\ ml.maxIter = MaxIter /\ ml.updates = MaxIter
    /\ ml.end = "converged"

\* C4: a singular summed Hessian is a stop condition of maximizeLikelihood:
\* no exception of the matrix inversion leaves the optimizer.
C4_SingularHessianIsAStop ==
    (op \in FitStages \cup {"maximizeLikelihood"}) => pc # "LinAlgError"

\* C5: an iteration whose normalized log-likelihood L_norm is not finite
\* (NaN, +Inf, -Inf) is the last one: the loop does not go on after it.
C5_AbortOnNonFiniteLNorm ==
    (MLStarted /\ pc = "newton" /\ ml.i >= 0) => IsFinite(ml.L_norm)

\* C6: 'Not converged' is reported exactly when all maxIter iterations ran
\* and the stop condition was never met; a run that converges at the last
\* permitted iteration reports convergence only.
C6_NotConvergedIffCapWithoutStop ==
    MLReturned =>
        (Printed("NotConverged") <=>
            (ml.updates = ml.maxIter /\ ml.end # "converged"))

\* C7: a fitting stage whose optimizer run ended by numerical failure or at
\* the iteration cap returns something other than what it returns after a
\* converged fit.
C7_FailedFitIsDistinguishable ==
    (op \in FitStages /\ pc = "done" /\ ml.end \in {"problem", "cap"}) =>
        ret # [value |-> "None"]

-----------------------------------------------------------------------------
(* Properties of fitVoltageReset and fitSubthresholdDynamics *)

\* C9: fitSubthresholdDynamics on an experiment without a used training
\* trace aborts before the linear regression is attempted, and gl, C, El
\* and the coefficients of eta stay what they were.
C9_NoUsedTraceAbortsBeforeRegression ==
    (op = "fitSubthresholdDynamics" /\ Used(experiment) = {}) =>
        /\ pc # "regression"
        /\ ~Printed("Perform linear regression")
        /\ self.gl = self0.gl /\ self.C = self0.C /\ self.El = self0.El
        /\ self.eta = self0.eta

\* no used trace of the experiment has a spike
NoSpikeContributed(e) ==
    \A k \in Used(e) : e.trainingset_traces[k].nspk = 0

IsNaNValue(x) ==
    IF DOMAIN x = {"cls", "num", "den"} THEN IsNaN(x)
    ELSE \E k \in DOMAIN x : IsNaN(x[k])

\* C10: fitVoltageReset on an experiment in which no used training trace
\* contributes a spike does not return normally, and stores no NaN in Vr
\* or in the saved average spike shape: both stay what they were.
C10_NoSpikeIsAnError ==
    (op = "fitVoltageReset" /\ NoSpikeContributed(experiment)) =>
        /\ pc \in {"estimate", "UnboundLocalError"}
        /\ ~IsNaNValue(self.Vr) /\ ~IsNaNValue(self.avg_spike_shape)
        /\ self.Vr = self0.Vr
        /\ self.avg_spike_shape = self0.avg_spike_shape

\* a call on an experiment that has used traces, none with a spike, in
\* which the mean over no waveform was NaN, and that ended in the error
C10_Witness ==
    /\ op = "fitVoltageReset" /\ pc = "UnboundLocalError"
    /\ Used(experiment) # {} /\ NoSpikeContributed(experiment)
    /\ fit.spike_average = NaN

-----------------------------------------------------------------------------
(* Properties of two runs of maximizeLikelihood *)

\* C11: two runs of maximizeLikelihood on the same matrices and beta0 that
\* differ in logL_poisson only (NaN included) return the same beta after
\* the same number of Newton iterations.
C11_LogLPoissonDoesNotMatter ==
    (op = "maximizeLikelihood_pair" /\ pc = "done") =>
        /\ ret.beta = ret.beta_twin
        /\ ml.updates = twin.updates

-----------------------------------------------------------------------------
(* Properties of fitStaticThreshold *)

\* C12: whenever fitStaticThreshold has returned, every coefficient of
\* gamma is zero and lambda0 is 1, whatever they were before the call.
C12_StaticThresholdZeroesGamma ==
    (op = "fitStaticThreshold" /\ pc = "done") =>
        /\ AllZero(getCoefficients(self.gamma))
        /\ self.lambda0 = Fin(1)

\* a return of fitStaticThreshold on an object that had a nonzero gamma
\* coefficient and a lambda0 other than 1
C12_Witness ==
    /\ op = "fitStaticThreshold" /\ pc = "done"
    /\ ~AllZero(getCoefficients(self0.gamma))
    /\ self0.lambda0 # Fin(1)
    /\ Length(getCoefficients(self.gamma)) = Length(getCoefficients(self0.gamma))

-----------------------------------------------------------------------------
(* Properties of the public operations *)

\* C13: after a public operation has returned normally, dt > 0, Tref >= 0
\* and DV # 0.
C13_ParametersStayValid ==
    pc = "done" =>
        /\ self.dt > 0
        /\ self.Tref >= 0
        /\ self.DV # Fin(0)

-----------------------------------------------------------------------------
(* Properties of fit *)

FourStages ==
    <<"fitVoltageReset", "fitSubthresholdDynamics", "fitStaticThreshold",
      "fitThresholdDynamics">>

\* C14: inside fit the stages that have returned are an initial part of
\* fitVoltageReset, fitSubthresholdDynamics, fitStaticThreshold,
\* fitThresholdDynamics, the stage that is running is the one after them,
\* and fit returns when all four have returned, each once.
C14_FitRunsStagesInOrder ==
    frame # <<>> =>
        /\ Len(frame.returned) <= 4
        /\ frame.returned = SubSeq(FourStages, 1, Len(frame.returned))
        /\ op # "fit" => (Len(frame.returned) < 4
                          /\ op = FourStages[Len(frame.returned) + 1])
        /\ (op = "fit" /\ pc = "done") => frame.returned = FourStages

\* a fit that has returned after its four stages
C14_Witness ==
    /\ frame # <<>> /\ op = "fit" /\ pc = "done"
    /\ frame.returned = FourStages

-----------------------------------------------------------------------------
(* Properties of the learning rate *)

\* C15: the learning rate of the Newton iteration with index i is 0.1 for
\* i in 0..9 and 1.0 for i >= 10.
C15_LearningRateSchedule ==
    (MLStarted /\ ml.i >= 0) =>
        ml.learning_rate = (IF ml.i <= 9 THEN Q(1, 10) ELSE Fin(1))

-----------------------------------------------------------------------------
(* Properties of the arrays of simulate *)

\* C16: every write eta_sum[t+1+j] and gamma_sum[t+1+j] that simulate
\* makes when a spike is emitted falls inside the array it is made to.
C16_KernelWritesStayInside ==
    op = "simulate" => oob = {}

-----------------------------------------------------------------------------
(* Properties of the refractory period of simulate *)

\* the sample indices at which simulate has recorded a spike
Recorded == {i \in DOMAIN spks : spks[i] = 1}

\* C17: two spikes recorded by simulate at s1 < s2 are more than Tref_ind
\* samples apart, and no intensity or draw is evaluated for the samples
\* s1+1 .. s1+Tref_ind after a recorded spike at s1.
C17_NoSpikeInRefractoryWindow ==
    op = "simulate" =>
        LET Tref_ind == self.Tref \div self.dt
        IN  /\ \A s1, s2 \in Recorded : s1 < s2 => s2 - s1 > Tref_ind
            /\ \A s1 \in Recorded : \A k \in (s1 + 1)..(s1 + Tref_ind) :
                  k \notin evaluated

\* a run that has returned, with a refractory period of at least one
\* sample, two recorded spikes, and a sample evaluated between them
C17_Witness ==
    /\ op = "simulate" /\ pc = "done"
    /\ self.Tref \div self.dt >= 1
    /\ \E s1, s2 \in Recorded : s1 < s2
    /\ Cardinality(evaluated) >= 2

\* C18: in the voltage returned by simulate, every sample s+1 .. s+Tref_ind
\* after a recorded spike at s that lies inside the trace equals Vr.
C18_VoltageHeldAtReset ==
    (op = "simulate" /\ pc = "done") =>
        \A s \in Recorded : \A k \in (s + 1)..(s + self.Tref \div self.dt) :
            k \in DOMAIN ret.V => ret.V[k] = self.Vr

-----------------------------------------------------------------------------
(* Properties of the adaptation current of the forced-spike simulator *)

\* sample j of kernel k, 0 outside the kernel
KernelAt(k, j) == IF j \in DOMAIN k THEN k[j] ELSE 0

RECURSIVE KernelSum(_, _, _, _, _)
\* the sum over the first n spikes s of si of k[i - (s + off)]
KernelSum(k, si, off, i, n) ==
    IF n = 0 THEN 0
    ELSE KernelSum(k, si, off, i, n - 1) + KernelAt(k, i - (si[n - 1] + off))

\* C19: the eta_sum returned by simulateDeterministic_forceSpikes is, at
\* every i < T, the sum over the supplied spikes s of eta[i - (s + Tref_ind)].
C19_ForcedEtaSumIsSuperposition ==
    (op = "forceSpikes" /\ pc = "done") =>
        LET k == getInterpolatedFilter(self.eta, self.dt)
        IN  \A i \in 0..(Length(I) - 1) :
               ret.eta_sum[i] =
                  KernelSum(k, spks_i, self.Tref \div self.dt, i, Length(spks_i))

\* C20: forced on the spike train that simulate produced, with the same
\* parameters and input, simulateDeterministic_forceSpikes computes the
\* eta_sum that simulate returned.
C20_ReplayGivesSameEtaSum ==
    (op = "forceSpikes" /\ ret # <<>> /\ pc = "loop") =>
        eta_sum = ret.eta_sum


-----------------------------------------------------------------------------
(* Properties of the loop of the forced-spike simulator *)

\* every supplied spike index is a sample of the trace
InRange(si, n) == \A k \in DOMAIN si : 0 <= si[k] /\ si[k] < n

\* C21: for a spike list sorted ascending with distinct in-range indices the
\* loop body of simulateDeterministic_forceSpikes runs at most
\* (T - 1) + len(spks) times, and spks_cnt never passes len(spks): every
\* supplied spike is consumed at most once and the loop ends.
C21_ForcedLoopIsBounded ==
    (/\ op = "forceSpikes" /\ pc \in {"loop", "done"}
     /\ SortedDistinct(spks_i) /\ InRange(spks_i, Length(I))) =>
        /\ nbody <= (Length(I) - 1) + Length(spks_i)
        /\ spks_cnt <= Length(spks_i)

\* C22: in simulateDeterministic_forceSpikes no read of spks_i and no write
\* of V falls outside the array, for every input.
C22_ForcedAccessesStayInside ==
    op = "forceSpikes" => oob = {}

-----------------------------------------------------------------------------
(* Properties of the regression rows *)

\* C23: every row of (X, Y) built by
\* fitSubthresholdDynamics_Build_Xmatrix_Yvector belongs to a sample
\* t < T-1 and its target is (V[t+1] - V[t]) / dt; the sample T-1 gives no
\* row, whatever the selection.
C23_LastSampleGivesNoRow ==
    (op = "fitSubthresholdDynamics_Build_Xmatrix_Yvector" /\ pc = "done") =>
        \A r \in DOMAIN fit.Y :
            LET ts == fit.selection[r]
            IN  /\ ts < Length(V) - 1
                /\ fit.Y[r] = Q(V[ts + 1] - V[ts], fit.dt)

-----------------------------------------------------------------------------
(* Properties of fitThresholdDynamics *)

\* C24: when maximizeLikelihood returns the initial vector beta0 unchanged,
\* fitThresholdDynamics leaves DV, Vt_star and every coefficient of gamma
\* at their values before the call.
C24_SeedAndRecoveryAreInverse ==
    (op = "fitThresholdDynamics" /\ pc = "done" /\ ml.beta = ml.beta0) =>
        /\ self.DV = self0.DV
        /\ self.Vt_star = self0.Vt_star
        /\ DOMAIN self.gamma = DOMAIN self0.gamma
        /\ \A k \in DOMAIN self0.gamma : self.gamma[k] = Fin(self0.gamma[k])

-----------------------------------------------------------------------------
(* Properties of fitVoltageReset *)

\* the training traces that are used and have at least one spike
Contributors(e) ==
    {k \in DOMAIN e.trainingset_traces :
        e.trainingset_traces[k].useTrace /\ e.trainingset_traces[k].nspk > 0}

RECURSIVE FSum(_, _)
\* the sum of the floating point values f[k], k in S
FSum(f, S) ==
    IF S = {} THEN Fin(0)
    ELSE LET k == CHOOSE x \in S : TRUE
         IN  FAdd(f[k], FSum(f, S \ {k}))

\* sample j of the mean waveform in which every contributing trace has
\* weight 1/n
EqualWeightMean(e, j) ==
    FDiv(FSum([k \in DOMAIN e.trainingset_traces |-> e.trainingset_traces[k].shape[j]],
              Contributors(e)),
         Fin(Cardinality(Contributors(e))))

\* C25: when fitVoltageReset returns, Vr is the value, at the first support
\* sample whose time is >= Tref, of the mean with weight 1/n of the
\* spike-triggered averages of the used traces that have a spike, and that
\* mean and its support are stored as avg_spike_shape and
\* avg_spike_shape_support.
C25_VrFromEqualWeightMean ==
    (op = "fitVoltageReset" /\ pc = "done") =>
        LET sup == Support(experiment.dt)
        IN  /\ Contributors(experiment) # {}
            /\ \E k \in DOMAIN sup :
                  /\ sup[k] >= self.Tref
                  /\ \A j \in DOMAIN sup : j < k => sup[j] < self.Tref
                  /\ self.Vr = EqualWeightMean(experiment, k)
            /\ self.avg_spike_shape =
                  [j \in DOMAIN sup |-> EqualWeightMean(experiment, j)]
            /\ self.avg_spike_shape_support = sup

\* a returned call on two contributing traces with different spike counts,
\* with Tref beyond the first support sample, in which Vr is a sample of
\* neither waveform
C25_Witness ==
    /\ op = "fitVoltageReset" /\ pc = "done"
    /\ self.Tref > 0
    /\ Cardinality(Contributors(experiment)) = 2
    /\ \E j, k \in Contributors(experiment) :
          experiment.trainingset_traces[j].nspk # experiment.trainingset_traces[k].nspk
    /\ \A k \in Contributors(experiment) :
          \A j \in DOMAIN experiment.trainingset_traces[k].shape :
             experiment.trainingset_traces[k].shape[j] # self.Vr

=============================================================================
